---- MODULE Spec2Model ----
(***************************************************************************)
(* Model of the bonding_curve program: the LiquidityPool account, the      *)
(* LiquidityProvider accounts and the three engine operations              *)
(* (add_liquidity, remove_liquidity, swap) of                              *)
(* programs/bonding_curve/src/state.rs, run under the instruction          *)
(* handlers of lib.rs / instructions/swap.rs.                              *)
(*                                                                         *)
(* An operation works on the deserialized (in-memory) copies of the        *)
(* accounts it is handed; the handler propagates its error with `?`, and   *)
(* the account data are written back only when the handler returns Ok.     *)
(* The model keeps both: the operators below compute the in-memory values  *)
(* at the moment the operation returns, and the actions commit them to the *)
(* stored accounts only on Ok.                                             *)
(***************************************************************************)
EXTENDS Integers, Sequences, FiniteSets, TLC

\* ------------------------------------------------------------------ bounds

\* Stand-in for u64::MAX: the width of every checked integer of the model.
U64_MAX == 16383

\* Mint decimals range over 0..MaxDecimals.
MaxDecimals == 1

\* Number of operations run from an arbitrary ledger (SpecAny).
MaxSteps == 2

\* Bytes of a public key range over 0..MaxByte (0..255 in the program).
MaxByte == 2

\* ------------------------------------------------------------- input sets

Users == {"u1", "u2"}

Tokens == {"A", "B"}

AmountsOne == {0, 1, 10, 100, 400}

AmountsTwo == {0, 1, 40, 400}

ShareAmounts == {0, 1, 20, 200}

SwapAmounts == {0, 1, 2, 3, 4, 100}

Decimals == 0..MaxDecimals

\* Public keys: byte arrays of one fixed length (32 bytes in the program, 2 here).
Pubkeys == (0..MaxByte) \X (0..MaxByte)

\* Fee percentages of the stored configuration.
Fees == {0, 5}

\* A reserve so large that adding a deposit to it overflows.
BigReserve == U64_MAX - 383

\* liquidity_added records the history of the pool: whether an add_liquidity
\* instruction on it has succeeded since Init.
VARIABLES pool, provider, vault, wallet, mint, last, steps, liquidity_added,
          dex_configuration_account

vars == <<pool, provider, vault, wallet, mint, last, steps, liquidity_added,
          dex_configuration_account>>

\* ------------------------------------------------------ checked arithmetic

None == -1

\* wrapping_add in place of checked_add.
wrapping_add(a, b) == (a + b) % (U64_MAX + 1)

checked_add(a, b) == IF a + b > U64_MAX THEN None ELSE a + b

\* wrapping_sub in place of checked_sub.
wrapping_sub(a, b) == (a - b) % (U64_MAX + 1)

checked_sub(a, b) == IF a < b THEN None ELSE a - b

checked_mul(a, b) == IF a * b > U64_MAX THEN None ELSE a * b

checked_div(a, b) == IF b = 0 THEN None ELSE a \div b

\* The larger of the two, in place of the smaller.
larger_of(a, b) == IF a >= b THEN a ELSE b

Min(a, b) == IF a <= b THEN a ELSE b

Pow10(d) == IF d = 0 THEN 1 ELSE IF d = 1 THEN 10 ELSE IF d = 2 THEN 100 ELSE 1000

\* floor(sqrt(x)) of a non-negative real x = n / den, as an integer.
\* hi bounds the root from above.
FloorSqrtRatio(n, den, hi) ==
    CHOOSE r \in 0..hi : r * r * den <= n /\ (r + 1) * (r + 1) * den > n

\* convert_to_float(a1, d1) * convert_to_float(a2, d2), square-rooted and cast
\* to u64 (a cast of a non-negative float truncates and saturates at u64::MAX).
sqrt_shares(amount_one, d1, amount_two, d2) ==
    Min(FloorSqrtRatio(amount_one * amount_two, Pow10(d1) * Pow10(d2),
                       IF amount_one >= amount_two THEN amount_one ELSE amount_two),
        U64_MAX)

INITIAL_PRICE == 1

\* --------------------------------------------------------------- accounts

CurveConfiguration_new(fees) == [fees |-> fees]

\* The derived order of Pubkey: the order of its byte array, byte by byte.
pubkey_gt(a, b) ==
    \E i \in 1..Len(a) : a[i] > b[i] /\ \A j \in 1..(i - 1) : a[j] = b[j]

\* The big-endian number a byte array stands for.
RECURSIVE be_value(_)
be_value(bytes) ==
    IF bytes = <<>> THEN 0
    ELSE be_value(SubSeq(bytes, 1, Len(bytes) - 1)) * (MaxByte + 1) + bytes[Len(bytes)]

leading_zeros(bytes) ==
    Cardinality({i \in 1..Len(bytes) : \A j \in 1..i : bytes[j] = 0})

\* The alphabet of the text form has fewer symbols than a byte has values
\* (58 against 256 in the program).
DigitBase == MaxByte

RECURSIVE digits(_)
digits(n) == IF n = 0 THEN <<>> ELSE Append(digits(n \div DigitBase), n % DigitBase)

\* Pubkey::to_string, the base-58 text of the key: one symbol 0 (the
\* character '1') per leading zero byte, then the digits of the number the
\* bytes stand for. Texts are sequences of symbols 0..DigitBase-1.
to_string(key) == [i \in 1..leading_zeros(key) |-> 0] \o digits(be_value(key))

\* generate_seed without the comparison of the two keys.
generate_seed_as_given(token_one, token_two) ==
    to_string(token_one) \o to_string(token_two)

generate_seed(token_one, token_two) ==
    IF pubkey_gt(token_one, token_two)
    THEN to_string(token_one) \o to_string(token_two)
    ELSE to_string(token_two) \o to_string(token_one)

LiquidityPool_new(token_one, token_two, bump) ==
    [token_one |-> token_one, token_two |-> token_two, total_supply |-> 0,
     reserve_one |-> 0, reserve_two |-> 0, bump |-> bump]

\* One trace entry per write to an account field and per custody call.
Ev(ev, what, amount) == [ev |-> ev, what |-> what, amount |-> amount]

Fail(m, e) == [m EXCEPT !.err = e]

\* ------------------------------------------------------- share accounting

\* grant_shares without its total_supply update.
grant_shares_no_supply(m, shares) ==
    LET s == checked_add(m.shares, shares) IN
    IF s = None THEN Fail(m, "FailedToAllocateShares")
    ELSE [m EXCEPT !.shares = s, !.trace = Append(@, Ev("write", "shares", s))]

\* grant_shares with the granted shares added to total_supply.
grant_shares_adds_supply(m, shares) ==
    LET s == checked_add(m.shares, shares) IN
    IF s = None THEN Fail(m, "FailedToAllocateShares")
    ELSE LET m1 == [m EXCEPT !.shares = s, !.trace = Append(@, Ev("write", "shares", s))]
             t == checked_add(m1.pool.total_supply, shares) IN
         IF t = None THEN Fail(m1, "OverflowOrUnderflowOccurred")
         ELSE [m1 EXCEPT !.pool.total_supply = t,
                         !.trace = Append(@, Ev("write", "total_supply", t))]

grant_shares(m, shares) ==
    LET s == checked_add(m.shares, shares) IN
    IF s = None THEN Fail(m, "FailedToAllocateShares")
    ELSE LET m1 == [m EXCEPT !.shares = s, !.trace = Append(@, Ev("write", "shares", s))]
             t == checked_sub(m1.pool.total_supply, shares) IN
         IF t = None THEN Fail(m1, "OverflowOrUnderflowOccurred")
         ELSE [m1 EXCEPT !.pool.total_supply = t,
                         !.trace = Append(@, Ev("write", "total_supply", t))]

\* remove_shares without its total_supply update.
remove_shares_position_only(m, shares) ==
    LET s == checked_sub(m.shares, shares) IN
    IF s = None THEN Fail(m, "FailedToDeallocateShares")
    ELSE [m EXCEPT !.shares = s, !.trace = Append(@, Ev("write", "shares", s))]

remove_shares(m, shares) ==
    LET s == checked_sub(m.shares, shares) IN
    IF s = None THEN Fail(m, "FailedToDeallocateShares")
    ELSE LET m1 == [m EXCEPT !.shares = s, !.trace = Append(@, Ev("write", "shares", s))]
             t == checked_sub(m1.pool.total_supply, shares) IN
         IF t = None THEN Fail(m1, "OverflowOrUnderflowOccurred")
         ELSE [m1 EXCEPT !.pool.total_supply = t,
                         !.trace = Append(@, Ev("write", "total_supply", t))]

\* update_reserves writing total_supply as well.
update_reserves_and_supply(m, reserve_one, reserve_two) ==
    [m EXCEPT !.pool.reserve_one = reserve_one, !.pool.reserve_two = reserve_two,
              !.pool.total_supply = reserve_one,
              !.trace = Append(@, Ev("write", "reserves", 0))]

update_reserves(m, reserve_one, reserve_two) ==
    [m EXCEPT !.pool.reserve_one = reserve_one, !.pool.reserve_two = reserve_two,
              !.trace = Append(@, Ev("write", "reserves", 0))]

\* ----------------------------------------------------------------- custody

\* A pull that debits the caller without crediting the pool's token account.
transfer_token_to_pool_uncredited(m, asset, amount) ==
    IF m.wallet[asset] < amount
    THEN [m EXCEPT !.err = "TokenTransferFailed",
                   !.trace = Append(@, Ev("pull_failed", asset, amount))]
    ELSE [m EXCEPT !.wallet[asset] = @ - amount,
                   !.trace = Append(@, Ev("pull", asset, amount))]

\* token::transfer from the caller's token account into the pool's.
transfer_token_to_pool(m, asset, amount) ==
    IF m.wallet[asset] < amount
    THEN [m EXCEPT !.err = "TokenTransferFailed",
                   !.trace = Append(@, Ev("pull_failed", asset, amount))]
    ELSE [m EXCEPT !.wallet[asset] = @ - amount, !.vault[asset] = @ + amount,
                   !.trace = Append(@, Ev("pull", asset, amount))]

\* token::transfer from the pool's token account to the caller's, signed by the pool.
transfer_token_from_pool(m, asset, amount) ==
    IF m.vault[asset] < amount
    THEN [m EXCEPT !.err = "TokenTransferFailed",
                   !.trace = Append(@, Ev("release_failed", asset, amount))]
    ELSE [m EXCEPT !.vault[asset] = @ - amount, !.wallet[asset] = @ + amount,
                   !.trace = Append(@, Ev("release", asset, amount))]

\* ------------------------------------------------------------- operations

\* The share amount add_liquidity computes: [err, v].
shares_to_allocate(p, amount_one, amount_two, d1, d2) ==
    IF p.total_supply = 0
    THEN [err |-> "Ok", v |-> sqrt_shares(amount_one, d1, amount_two, d2)]
    ELSE LET mul_one == checked_mul(amount_one, p.total_supply) IN
         IF mul_one = None THEN [err |-> "OverflowOrUnderflowOccurred", v |-> 0]
         ELSE LET shares_one == checked_div(mul_one, p.reserve_one) IN
         IF shares_one = None THEN [err |-> "OverflowOrUnderflowOccurred", v |-> 0]
         ELSE LET mul_two == checked_mul(amount_two, p.total_supply) IN
         IF mul_two = None THEN [err |-> "OverflowOrUnderflowOccurred", v |-> 0]
         ELSE LET shares_two == checked_div(mul_two, p.reserve_two) IN
         IF shares_two = None THEN [err |-> "OverflowOrUnderflowOccurred", v |-> 0]
         ELSE [err |-> "Ok", v |-> Min(shares_one, shares_two)]

add_liquidity(m, amount_one, amount_two, d1, d2) ==
    LET sta == shares_to_allocate(m.pool, amount_one, amount_two, d1, d2) IN
    IF sta.err # "Ok" THEN Fail(m, sta.err)
    ELSE IF sta.v <= 0 THEN Fail(m, "FailedToAddLiquidity")
    ELSE LET m1 == grant_shares([m EXCEPT !.out_shares = sta.v], sta.v) IN
    IF m1.err # "Ok" THEN m1
    ELSE LET new_reserves_one == checked_add(m1.pool.reserve_one, amount_one) IN
    IF new_reserves_one = None THEN Fail(m1, "OverflowOrUnderflowOccurred")
    ELSE LET new_reserves_two == checked_add(m1.pool.reserve_two, amount_two) IN
    IF new_reserves_two = None THEN Fail(m1, "OverflowOrUnderflowOccurred")
    ELSE LET m2 == update_reserves(m1, new_reserves_one, new_reserves_two)
             m3 == transfer_token_to_pool(m2, "one", amount_one) IN
    IF m3.err # "Ok" THEN m3
    ELSE transfer_token_to_pool(m3, "two", amount_two)

\* remove_liquidity without its InsufficientShares check.
remove_precheck_no_balance(provider_shares, shares) ==
    IF shares <= 0 THEN "FailedToRemoveLiquidity" ELSE "Ok"

\* The two checks remove_liquidity makes before any arithmetic: the error, or "Ok".
remove_precheck(provider_shares, shares) ==
    IF shares <= 0 THEN "FailedToRemoveLiquidity"
    ELSE IF provider_shares < shares THEN "InsufficientShares"
    ELSE "Ok"

\* The payout check with "and" for "or".
payout_is_empty_both(amount_out_one, amount_out_two) ==
    amount_out_one <= 0 /\ amount_out_two <= 0

\* The check remove_liquidity makes on the two computed payouts.
payout_is_empty(amount_out_one, amount_out_two) ==
    amount_out_one <= 0 \/ amount_out_two <= 0

remove_liquidity(m, shares) ==
    IF remove_precheck(m.shares, shares) # "Ok"
    THEN Fail(m, remove_precheck(m.shares, shares))
    ELSE LET mul_one == checked_mul(shares, m.pool.reserve_one) IN
    IF mul_one = None THEN Fail(m, "OverflowOrUnderflowOccurred")
    ELSE LET amount_out_one == checked_div(mul_one, m.pool.total_supply) IN
    IF amount_out_one = None THEN Fail(m, "OverflowOrUnderflowOccurred")
    ELSE LET mul_two == checked_mul(shares, m.pool.reserve_two) IN
    IF mul_two = None THEN Fail(m, "OverflowOrUnderflowOccurred")
    ELSE LET amount_out_two == checked_div(mul_two, m.pool.total_supply) IN
    IF amount_out_two = None THEN Fail(m, "OverflowOrUnderflowOccurred")
    ELSE IF payout_is_empty(amount_out_one, amount_out_two)
         THEN Fail(m, "FailedToRemoveLiquidity")
    ELSE LET m1 == remove_shares([m EXCEPT !.out_one = amount_out_one,
                                           !.out_two = amount_out_two], shares) IN
    IF m1.err # "Ok" THEN m1
    ELSE LET new_reserves_one == checked_sub(m1.pool.reserve_one, amount_out_one) IN
    IF new_reserves_one = None THEN Fail(m1, "OverflowOrUnderflowOccurred")
    ELSE LET new_reserves_two == checked_sub(m1.pool.reserve_two, amount_out_two) IN
    IF new_reserves_two = None THEN Fail(m1, "OverflowOrUnderflowOccurred")
    ELSE LET m2 == update_reserves(m1, new_reserves_one, new_reserves_two)
             m3 == transfer_token_from_pool(m2, "one", amount_out_one) IN
    IF m3.err # "Ok" THEN m3
    ELSE transfer_token_from_pool(m3, "two", amount_out_two)

\* The curve with the product halved, instead of the amount.
swap_amount_out_halved_product(reserve_one, amount) ==
    LET dbl == checked_mul(reserve_one, 2) IN
    IF dbl = None THEN None
    ELSE LET s1 == checked_add(dbl, amount) IN
    IF s1 = None THEN None
    ELSE LET amount_inc == checked_add(s1, 1) IN
    IF amount_inc = None THEN None
    ELSE LET prod == checked_mul(amount_inc, amount) IN
    IF prod = None THEN None
    ELSE checked_mul(prod \div 2, INITIAL_PRICE)

\* The amount of asset two swap computes for `amount` at reserve_one: None on
\* overflow of any intermediate value.
swap_amount_out(reserve_one, amount) ==
    LET dbl == checked_mul(reserve_one, 2) IN
    IF dbl = None THEN None
    ELSE LET s1 == checked_add(dbl, amount) IN
    IF s1 = None THEN None
    ELSE LET amount_inc == checked_add(s1, 1) IN
    IF amount_inc = None THEN None
    ELSE LET multiplier == checked_div(amount, 2) IN
    IF multiplier = None THEN None
    ELSE LET prod == checked_mul(amount_inc, multiplier) IN
    IF prod = None THEN None
    ELSE checked_mul(prod, INITIAL_PRICE)

\* The amount check with the zero amount let through.
amount_is_invalid_negative_only(amount) == amount < 0

\* The check swap makes on its input amount.
amount_is_invalid(amount) == amount <= 0

\* swap with the fee of the configuration taken off the amount it prices.
swap_fees_applied(bonding_configuration_account, m, amount) ==
    IF amount_is_invalid(amount) THEN Fail(m, "InvalidAmount")
    ELSE LET adjusted_amount == (amount * (100 - bonding_configuration_account.fees)) \div 100
             amount_out == swap_amount_out(m.pool.reserve_one, adjusted_amount) IN
    IF amount_out = None THEN Fail(m, "OverflowOrUnderflowOccurred")
    ELSE LET new_reserves_one == checked_add(m.pool.reserve_one, amount) IN
    IF new_reserves_one = None THEN Fail(m, "OverflowOrUnderflowOccurred")
    ELSE LET new_reserves_two == checked_sub(m.pool.reserve_two, amount_out) IN
    IF new_reserves_two = None THEN Fail(m, "OverflowOrUnderflowOccurred")
    ELSE LET m1 == update_reserves([m EXCEPT !.out_two = amount_out],
                                   new_reserves_one, new_reserves_two)
             m2 == transfer_token_to_pool(m1, "one", amount) IN
    IF m2.err # "Ok" THEN m2
    ELSE transfer_token_from_pool(m2, "two", amount_out)

\* swap with the two transfers made before the reserves are written.
swap_transfers_first(bonding_configuration_account, m, amount) ==
    IF amount_is_invalid(amount) THEN Fail(m, "InvalidAmount")
    ELSE LET amount_out == swap_amount_out(m.pool.reserve_one, amount) IN
    IF amount_out = None THEN Fail(m, "OverflowOrUnderflowOccurred")
    ELSE LET m1 == transfer_token_to_pool([m EXCEPT !.out_two = amount_out], "one", amount) IN
    IF m1.err # "Ok" THEN m1
    ELSE LET m2 == transfer_token_from_pool(m1, "two", amount_out) IN
    IF m2.err # "Ok" THEN m2
    ELSE LET new_reserves_one == checked_add(m2.pool.reserve_one, amount) IN
    IF new_reserves_one = None THEN Fail(m2, "OverflowOrUnderflowOccurred")
    ELSE LET new_reserves_two == checked_sub(m2.pool.reserve_two, amount_out) IN
    IF new_reserves_two = None THEN Fail(m2, "OverflowOrUnderflowOccurred")
    ELSE update_reserves(m2, new_reserves_one, new_reserves_two)

\* bonding_configuration_account is handed to swap and never read: the lines
\* that applied its fees are commented out.
swap(bonding_configuration_account, m, amount) ==
    IF amount_is_invalid(amount) THEN Fail(m, "InvalidAmount")
    ELSE LET amount_out == swap_amount_out(m.pool.reserve_one, amount) IN
    IF amount_out = None THEN Fail(m, "OverflowOrUnderflowOccurred")
    ELSE LET new_reserves_one == checked_add(m.pool.reserve_one, amount) IN
    IF new_reserves_one = None THEN Fail(m, "OverflowOrUnderflowOccurred")
    ELSE LET new_reserves_two == checked_sub(m.pool.reserve_two, amount_out) IN
    IF new_reserves_two = None THEN Fail(m, "OverflowOrUnderflowOccurred")
    ELSE LET m1 == update_reserves([m EXCEPT !.out_two = amount_out],
                                   new_reserves_one, new_reserves_two)
             m2 == transfer_token_to_pool(m1, "one", amount) IN
    IF m2.err # "Ok" THEN m2
    ELSE transfer_token_from_pool(m2, "two", amount_out)

\* ------------------------------------------------------ instruction handlers

NoCall ==
    [op |-> "none", user |-> "u1", a |-> 0, b |-> 0, err |-> "Ok",
     pre |-> [pool |-> LiquidityPool_new("A", "B", 255), provider |-> [u \in Users |-> 0],
              vault |-> [k \in {"one", "two"} |-> 0],
              wallet |-> [u \in Users |-> [k \in {"one", "two"} |-> 0]]],
     mem |-> [pool |-> LiquidityPool_new("A", "B", 255), shares |-> 0,
              vault |-> [k \in {"one", "two"} |-> 0],
              wallet |-> [k \in {"one", "two"} |-> 0],
              trace |-> <<>>, err |-> "Ok", out_shares |-> 0, out_one |-> 0, out_two |-> 0]]

\* The accounts an instruction of user u is handed, deserialized.
Load(u) ==
    [pool |-> pool, shares |-> provider[u], vault |-> vault, wallet |-> wallet[u],
     trace |-> <<>>, err |-> "Ok", out_shares |-> 0, out_one |-> 0, out_two |-> 0]

\* A handler that drops the operation's error and returns Ok.
Committed_ignoring_error(m) == TRUE

\* A handler that keeps the account changes of an operation whose transfer failed.
Committed_on_transfer_failure(m) == m.err \in {"Ok", "TokenTransferFailed"}

\* Whether the instruction's account changes and token transfers are kept:
\* the handler returns the operation's error, and only an Ok instruction is
\* written back.
Committed(m) == m.err = "Ok"

\* The end of an instruction of user u whose operation returned m.
Finish(op, u, a, b, m) ==
    /\ IF Committed(m)
       THEN /\ pool' = m.pool
            /\ provider' = [provider EXCEPT ![u] = m.shares]
            /\ vault' = m.vault
            /\ wallet' = [wallet EXCEPT ![u] = m.wallet]
       ELSE UNCHANGED <<pool, provider, vault, wallet>>
    /\ last' = [op |-> op, user |-> u, a |-> a, b |-> b, err |-> m.err,
                pre |-> [pool |-> pool, provider |-> provider, vault |-> vault,
                         wallet |-> wallet],
                mem |-> m]
    /\ liquidity_added' = (liquidity_added \/ (op = "add_liquidity" /\ Committed(m)))
    /\ UNCHANGED <<mint, dex_configuration_account>>

AddLiquidity(u, amount_one, amount_two) ==
    Finish("add_liquidity", u, amount_one, amount_two,
           add_liquidity(Load(u), amount_one, amount_two, mint.one, mint.two))

RemoveLiquidity(u, shares) ==
    Finish("remove_liquidity", u, shares, 0, remove_liquidity(Load(u), shares))

Swap(u, amount) ==
    Finish("swap", u, amount, 0, swap(dex_configuration_account, Load(u), amount))

Op ==
    \/ \E u \in Users, a1 \in AmountsOne, a2 \in AmountsTwo : AddLiquidity(u, a1, a2)
    \/ \E u \in Users, n \in ShareAmounts : RemoveLiquidity(u, n)
    \/ \E u \in Users, a \in SwapAmounts : Swap(u, a)

\* ---------------------------------------------- a newly created pool (Spec)

FreshWallet == [one |-> 3, two |-> 4]

Init ==
    /\ \E t1 \in Tokens, t2 \in Tokens :
          /\ t1 # t2
          /\ pool = LiquidityPool_new(t1, t2, 255)
    /\ provider = [u \in Users |-> 0]
    /\ vault = [one |-> 0, two |-> 0]
    /\ wallet = [u \in Users |-> FreshWallet]
    /\ mint \in [{"one", "two"} -> Decimals]
    /\ last = NoCall
    /\ steps = 0
    /\ liquidity_added = FALSE
    /\ \E fees \in Fees : dex_configuration_account = CurveConfiguration_new(fees)

Next == Op /\ UNCHANGED steps

Spec == Init /\ [][Next]_vars

\* ------------------------------------- an arbitrary stored ledger (SpecAny)

\* u1 can fund the deposits of the input sets, u2 cannot.
AnyWallet ==
    [u \in Users |-> IF u = "u1" THEN [one |-> 110, two |-> 440]
                                 ELSE [one |-> 1, two |-> 4]]

InitAny ==
    /\ \E r1 \in {0, 100, BigReserve}, r2 \in {0, 4, 400}, ts \in {0, 40, 200} :
          /\ pool = [LiquidityPool_new("A", "B", 255) EXCEPT
                        !.reserve_one = r1, !.reserve_two = r2, !.total_supply = ts]
          /\ vault = [one |-> r1, two |-> r2]
    /\ \E s1 \in {20, U64_MAX}, s2 \in {0, 200} :
          provider = [u \in Users |-> IF u = "u1" THEN s1 ELSE s2]
    /\ wallet = AnyWallet
    /\ mint = [k \in {"one", "two"} |-> 0]
    /\ last = NoCall
    /\ steps = 0
    /\ liquidity_added = FALSE
    /\ dex_configuration_account = CurveConfiguration_new(CHOOSE fees \in Fees : fees > 0)

NextAny == steps < MaxSteps /\ Op /\ steps' = steps + 1

SpecAny == InitAny /\ [][NextAny]_vars

\* --------------------------------------------------- pool creation (SpecCreate)

\* The record of a create_pool instruction for the pair (token_one, token_two).
CreateCall(token_one, token_two) ==
    [op |-> "create_pool", token_one |-> token_one, token_two |-> token_two,
     seed |-> generate_seed(token_one, token_two),
     err |-> IF token_one = token_two THEN "DuplicateTokenNotAllowed" ELSE "Ok"]

\* create_pool for the mints token_one and token_two: the pool account is
\* addressed by generate_seed and holds LiquidityPool::new. `pool` is the
\* ledger made by the last create_pool that succeeded, last.pre the
\* instruction before the last. SpecCreate runs two instructions: the one of
\* InitCreate and one more.
CreatePool(token_one, token_two) ==
    /\ steps = 0
    /\ steps' = steps + 1
    /\ pool' = IF token_one = token_two THEN pool
               ELSE LiquidityPool_new(token_one, token_two, 255)
    /\ last' = [call |-> CreateCall(token_one, token_two), pre |-> last.call]
    /\ UNCHANGED <<provider, vault, wallet, mint, liquidity_added,
                   dex_configuration_account>>

InitCreate ==
    /\ \E t1 \in Pubkeys, t2 \in Pubkeys :
          /\ t1 # t2
          /\ pool = LiquidityPool_new(t1, t2, 255)
          /\ last = [call |-> CreateCall(t1, t2), pre |-> CreateCall(t1, t2)]
    /\ provider = [u \in Users |-> 0]
    /\ vault = [one |-> 0, two |-> 0]
    /\ wallet = [u \in Users |-> FreshWallet]
    /\ mint = [k \in {"one", "two"} |-> 0]
    /\ steps = 0
    /\ liquidity_added = FALSE
    /\ dex_configuration_account = CurveConfiguration_new(0)

NextCreate == \E t1 \in Pubkeys, t2 \in Pubkeys : CreatePool(t1, t2)

SpecCreate == InitCreate /\ [][NextCreate]_vars

\* ------------------------------------------------------------------ claims

RECURSIVE SumOver(_, _)
SumOver(f, S) == IF S = {} THEN 0 ELSE LET x == CHOOSE x \in S : TRUE IN f[x] + SumOver(f, S \ {x})

Caller == last.user

Pre == last.pre.pool

FloorSqrt(n) == CHOOSE r \in 0..n : r * r <= n /\ (r + 1) * (r + 1) > n

\* The caller's token accounts hold the amounts the call deposits.
CallerFunded(a1, a2) ==
    last.pre.wallet[Caller].one >= a1 /\ last.pre.wallet[Caller].two >= a2

C2_BootstrapMints ==
    (/\ last.op = "add_liquidity"
     /\ Pre.total_supply = 0
     /\ mint.one = 0 /\ mint.two = 0
     /\ last.a * last.b >= 1
     /\ CallerFunded(last.a, last.b))
    => (/\ last.err = "Ok"
        /\ provider[Caller] = last.pre.provider[Caller] + FloorSqrt(last.a * last.b)
        /\ pool.reserve_one = Pre.reserve_one + last.a
        /\ pool.reserve_two = Pre.reserve_two + last.b)

\* The shares a steady-state deposit is priced at.
SteadyShares(p, a1, a2) ==
    Min((a1 * p.total_supply) \div p.reserve_one, (a2 * p.total_supply) \div p.reserve_two)

\* C3 (the claim as stated): a successful add_liquidity on a pool with
\* total_supply > 0 and both reserves > 0 credits min(floor(a1*T/r1),
\* floor(a2*T/r2)) shares, adds the amounts to the reserves and increases
\* total_supply by the minted shares.
C3_SteadyStateMints ==
    (/\ last.op = "add_liquidity"
     /\ last.err = "Ok"
     /\ Pre.total_supply > 0 /\ Pre.reserve_one > 0 /\ Pre.reserve_two > 0)
    => (/\ provider[Caller] = last.pre.provider[Caller] + SteadyShares(Pre, last.a, last.b)
        /\ pool.reserve_one = Pre.reserve_one + last.a
        /\ pool.reserve_two = Pre.reserve_two + last.b
        /\ pool.total_supply = Pre.total_supply + SteadyShares(Pre, last.a, last.b))

\* C4 (the claim as stated): after a successful steady-state add_liquidity in
\* the exact reserve ratio that minted s shares, remove_liquidity(s) by the
\* same provider succeeds, pays out the two deposited amounts and restores
\* the reserves, total_supply and the provider's shares.
C4_RoundTrip ==
    [][(/\ last.op = "add_liquidity"
        /\ last.err = "Ok"
        /\ Pre.total_supply > 0 /\ Pre.reserve_one > 0 /\ Pre.reserve_two > 0
        /\ last.a * Pre.reserve_two = last.b * Pre.reserve_one
        /\ last'.op = "remove_liquidity"
        /\ last'.user = last.user
        /\ last'.a = last.mem.out_shares)
       => (/\ last'.err = "Ok"
           /\ last'.mem.out_one = last.a
           /\ last'.mem.out_two = last.b
           /\ pool'.reserve_one = Pre.reserve_one
           /\ pool'.reserve_two = Pre.reserve_two
           /\ pool'.total_supply = Pre.total_supply
           /\ provider'[Caller] = last.pre.provider[Caller])]_vars

\* C5: whenever an operation returns an error, the stored pool, the stored
\* positions and the token balances are exactly those before the call.
C5_FailureLeavesStateUnchanged ==
    (last.op # "none" /\ last.err # "Ok")
    => (/\ pool = last.pre.pool
        /\ provider = last.pre.provider
        /\ vault = last.pre.vault
        /\ wallet = last.pre.wallet)

\* An add_liquidity whose reserve addition overflowed after grant_shares had
\* changed both the in-memory position and the in-memory total_supply.
C5_Witness ==
    /\ last.op = "add_liquidity"
    /\ last.err = "OverflowOrUnderflowOccurred"
    /\ last.mem.shares # last.pre.provider[Caller]
    /\ last.mem.pool.total_supply # Pre.total_supply
    /\ provider = last.pre.provider
    /\ pool = last.pre.pool

\* State, positions and balances are those before the last call.
Unchanged ==
    /\ pool = last.pre.pool
    /\ provider = last.pre.provider
    /\ vault = last.pre.vault
    /\ wallet = last.pre.wallet

\* The bonding-curve formula over the integers.
CurveOut(r, a) == (2 * r + a + 1) * (a \div 2) * INITIAL_PRICE

\* No intermediate value of the formula exceeds the integer width.
CurveFits(r, a) == 2 * r + a + 1 <= U64_MAX /\ CurveOut(r, a) <= U64_MAX

InRange(x) == x \in 0..U64_MAX

SwapEffect ==
    LET out == CurveOut(Pre.reserve_one, last.a) IN
    /\ last.err = "Ok"
    /\ last.mem.out_two = out
    /\ pool.reserve_one = Pre.reserve_one + last.a
    /\ pool.reserve_two = Pre.reserve_two - out
    /\ wallet[Caller].one = last.pre.wallet[Caller].one - last.a
    /\ wallet[Caller].two = last.pre.wallet[Caller].two + out
    /\ vault.one = last.pre.vault.one + last.a
    /\ vault.two = last.pre.vault.two - out
    /\ last.mem.trace = <<Ev("write", "reserves", 0), Ev("pull", "one", last.a),
                          Ev("release", "two", out)>>

\* C7 (the claim as stated): for amount > 0, when nothing overflows and
\* reserve_two >= amountOut, swap succeeds with the curve's amountOut, moves
\* the reserves, pulls amount of asset one and releases amountOut of asset two.
C7_SwapAsStated ==
    (/\ last.op = "swap" /\ last.a > 0
     /\ CurveFits(Pre.reserve_one, last.a)
     /\ Pre.reserve_two >= CurveOut(Pre.reserve_one, last.a))
    => SwapEffect

\* C7 (amended): the same, for a caller holding at least `amount` of asset
\* one and a pool token account holding at least amountOut of asset two.
C7_SwapPricing ==
    (/\ last.op = "swap" /\ last.a > 0
     /\ CurveFits(Pre.reserve_one, last.a)
     /\ Pre.reserve_two >= CurveOut(Pre.reserve_one, last.a)
     /\ last.pre.wallet[Caller].one >= last.a
     /\ last.pre.vault.two >= CurveOut(Pre.reserve_one, last.a))
    => SwapEffect

\* swap(4) at reserve_one = 0 paying out 10 of asset two.
C7_Witness ==
    /\ last.op = "swap" /\ last.a = 4 /\ Pre.reserve_one = 0
    /\ last.err = "Ok"
    /\ last.mem.out_two = 10 * INITIAL_PRICE
    /\ pool.reserve_one = 4
    /\ pool.reserve_two = Pre.reserve_two - 10 * INITIAL_PRICE

\* Amounts the curve is compared at.
MaxCurveAmount == 6

CurveAmounts == (1..MaxCurveAmount) \cup (SwapAmounts \ {0})

\* C8: at the pool's reserve_one, the amountOut swap computes is strictly
\* increasing in the amount over amounts >= 1 that do not overflow, it is 0
\* for amount = 1, and a successful swap(1) takes one unit of asset one and
\* pays nothing.
C8_SwapMonotone ==
    /\ \A a \in CurveAmounts, b \in CurveAmounts :
          (/\ a < b
           /\ swap_amount_out(pool.reserve_one, a) # None
           /\ swap_amount_out(pool.reserve_one, b) # None)
          => swap_amount_out(pool.reserve_one, a) < swap_amount_out(pool.reserve_one, b)
    /\ swap_amount_out(pool.reserve_one, 1) \in {0, None}
    /\ (last.op = "swap" /\ last.a = 1 /\ last.err = "Ok")
       => (/\ last.mem.out_two = 0
           /\ wallet[Caller].one = last.pre.wallet[Caller].one - 1
           /\ wallet[Caller].two = last.pre.wallet[Caller].two
           /\ pool.reserve_two = Pre.reserve_two)

\* A successful swap(1), at a reserve where larger amounts have a price.
C8_Witness ==
    /\ last.op = "swap" /\ last.a = 1 /\ last.err = "Ok"
    /\ wallet[Caller].one = last.pre.wallet[Caller].one - 1
    /\ wallet[Caller].two = last.pre.wallet[Caller].two
    /\ swap_amount_out(Pre.reserve_one, 2) # None
    /\ swap_amount_out(Pre.reserve_one, 2) < swap_amount_out(Pre.reserve_one, 3)

\* C9: remove_liquidity of shares > 0 by a provider holding fewer fails with
\* InsufficientShares, whatever the reserves and total_supply, and changes
\* nothing.
C9_OverRedemptionRejected ==
    (last.op = "remove_liquidity" /\ last.a > 0 /\ last.pre.provider[Caller] < last.a)
    => (last.err = "InsufficientShares" /\ Unchanged)

\* An over-redemption on a pool with total_supply = 0, where the payout
\* division would have failed.
C9_Witness ==
    /\ last.op = "remove_liquidity" /\ last.a > 0
    /\ last.pre.provider[Caller] < last.a
    /\ Pre.total_supply = 0
    /\ last.err = "InsufficientShares"
    /\ pool = last.pre.pool

\* Either payout of redeeming n shares at ledger p rounds down to 0.
PayoutRoundsToZero(p, n) ==
    \/ (n * p.reserve_one) \div p.total_supply = 0
    \/ (n * p.reserve_two) \div p.total_supply = 0

\* Every successful remove_liquidity pays out at least one unit of each asset.
RemovePaysBoth ==
    (last.op = "remove_liquidity" /\ last.err = "Ok")
    => (/\ last.mem.out_one >= 1 /\ last.mem.out_two >= 1
        /\ wallet[Caller].one = last.pre.wallet[Caller].one + last.mem.out_one
        /\ wallet[Caller].two = last.pre.wallet[Caller].two + last.mem.out_two)

\* C10 (the claim as stated): if either floor(shares * reserve / total_supply)
\* is 0, remove_liquidity fails with FailedToRemoveLiquidity and changes
\* nothing; every successful remove_liquidity pays out at least 1 of each asset.
C10_AsStated ==
    /\ (/\ last.op = "remove_liquidity"
        /\ Pre.total_supply > 0
        /\ PayoutRoundsToZero(Pre, last.a))
       => (last.err = "FailedToRemoveLiquidity" /\ Unchanged)
    /\ RemovePaysBoth

\* C10 (amended): the same for a request the provider holds the shares for
\* and whose products shares * reserve do not overflow.
C10_NoEmptyPayout ==
    /\ (/\ last.op = "remove_liquidity"
        /\ Pre.total_supply > 0
        /\ last.pre.provider[Caller] >= last.a
        /\ last.a * Pre.reserve_one <= U64_MAX
        /\ last.a * Pre.reserve_two <= U64_MAX
        /\ PayoutRoundsToZero(Pre, last.a))
       => (last.err = "FailedToRemoveLiquidity" /\ Unchanged)
    /\ RemovePaysBoth

\* A provider redeeming shares it holds for a payout that rounds to 0.
C10_Witness ==
    /\ last.op = "remove_liquidity" /\ last.a > 0
    /\ last.pre.provider[Caller] >= last.a
    /\ Pre.total_supply > 0
    /\ PayoutRoundsToZero(Pre, last.a)
    /\ last.err = "FailedToRemoveLiquidity"
    /\ provider = last.pre.provider

\* C11: a successful remove_liquidity(shares) pays out
\* floor(shares * reserve_one / total_supply) and
\* floor(shares * reserve_two / total_supply) of the ledger before the call,
\* takes exactly `shares` from the provider's shares and from total_supply,
\* takes the two payouts from the reserves, and releases exactly those two
\* amounts from the pool's token accounts to the provider.
C11_RemoveEffect ==
    (last.op = "remove_liquidity" /\ last.err = "Ok")
    => LET o1 == (last.a * Pre.reserve_one) \div Pre.total_supply
           o2 == (last.a * Pre.reserve_two) \div Pre.total_supply IN
       /\ Pre.total_supply > 0
       /\ last.mem.out_one = o1
       /\ last.mem.out_two = o2
       /\ provider[Caller] = last.pre.provider[Caller] - last.a
       /\ \A u \in Users \ {Caller} : provider[u] = last.pre.provider[u]
       /\ pool.total_supply = Pre.total_supply - last.a
       /\ pool.reserve_one = Pre.reserve_one - o1
       /\ pool.reserve_two = Pre.reserve_two - o2
       /\ wallet[Caller].one = last.pre.wallet[Caller].one + o1
       /\ wallet[Caller].two = last.pre.wallet[Caller].two + o2
       /\ vault.one = last.pre.vault.one - o1
       /\ vault.two = last.pre.vault.two - o2
       /\ SelectSeq(last.mem.trace, LAMBDA e : e.ev # "write")
             = <<Ev("release", "one", o1), Ev("release", "two", o2)>>

\* A redemption of 20 of the 200 shares of a 100 / 400 ledger, paying 10 and 40.
C11_Witness ==
    /\ last.op = "remove_liquidity" /\ last.err = "Ok"
    /\ last.a = 20
    /\ Pre.total_supply = 200 /\ Pre.reserve_one = 100 /\ Pre.reserve_two = 400
    /\ last.mem.out_one = 10 /\ last.mem.out_two = 40
    /\ pool.total_supply = 180
    /\ provider[Caller] = last.pre.provider[Caller] - 20

\* No pull and no release, attempted or done, in the last call.
NoCustodyCall == \A i \in 1..Len(last.mem.trace) : last.mem.trace[i].ev = "write"

\* C12: swap with amount = 0 fails with InvalidAmount, makes no custody
\* transfer and leaves reserve_one, reserve_two and total_supply (and every
\* other stored value) unchanged.
C12_ZeroSwapRejected ==
    (last.op = "swap" /\ last.a = 0)
    => (/\ last.err = "InvalidAmount"
        /\ NoCustodyCall
        /\ last.mem.pool = Pre
        /\ Unchanged)

\* swap(0) on a ledger holding both assets, by a caller holding asset one.
C12_Witness ==
    /\ last.op = "swap" /\ last.a = 0
    /\ last.err = "InvalidAmount"
    /\ Pre.reserve_one > 0 /\ Pre.reserve_two > 0
    /\ last.pre.wallet[Caller].one > 0
    /\ last.mem.trace = <<>>
    /\ pool = Pre

\* The last call is an add_liquidity whose share amount, as the two formulas
\* give it over the integers, is 0: on a ledger with total_supply = 0,
\* floor(sqrt(amount_one * amount_two)) = 0, that is amount_one * amount_two
\* < 1; on a ledger with total_supply > 0 and both reserves > 0, one of the
\* two floor ratios is 0.
AddComputesNoShares ==
    /\ last.op = "add_liquidity"
    /\ \/ Pre.total_supply = 0 /\ last.a * last.b < 1
       \/ /\ Pre.total_supply > 0 /\ Pre.reserve_one > 0 /\ Pre.reserve_two > 0
          /\ \/ (last.a * Pre.total_supply) \div Pre.reserve_one = 0
             \/ (last.b * Pre.total_supply) \div Pre.reserve_two = 0

AddRejectedUntouched ==
    /\ last.err = "FailedToAddLiquidity"
    /\ NoCustodyCall
    /\ last.mem.pool = Pre
    /\ last.mem.shares = last.pre.provider[Caller]
    /\ Unchanged

\* C13 (the claim as stated): add_liquidity fails with FailedToAddLiquidity
\* whenever the share amount of its formula is 0, changes no reserve, no
\* total_supply and no provider's shares, and pulls nothing.
C13_AsStated == AddComputesNoShares => AddRejectedUntouched

\* C13 (amended): the same, when neither product amount * total_supply of
\* the steady-state formula overflows.
C13_ZeroSharesRejected ==
    (/\ AddComputesNoShares
     /\ last.a * Pre.total_supply <= U64_MAX
     /\ last.b * Pre.total_supply <= U64_MAX)
    => AddRejectedUntouched

\* A deposit of one unit of each asset, worth less than one share.
C13_Witness ==
    /\ last.op = "add_liquidity"
    /\ last.a = 1 /\ last.b = 1
    /\ Pre.total_supply > 0 /\ Pre.reserve_one > 1 /\ Pre.reserve_two > 1
    /\ (last.a * Pre.total_supply) \div Pre.reserve_one = 0
    /\ last.err = "FailedToAddLiquidity"
    /\ last.mem.trace = <<>>
    /\ pool = Pre

ReserveOf(p, asset) == IF asset = "one" THEN p.reserve_one ELSE p.reserve_two

\* What the custody calls of the last operation moved into the pool's token
\* account of `asset`: the pulls minus the releases.
CustodyNet(asset) ==
    LET t == last.mem.trace
        idx == {i \in 1..Len(t) : t[i].what = asset /\ t[i].ev \in {"pull", "release"}} IN
    SumOver([i \in idx |-> IF t[i].ev = "pull" THEN t[i].amount ELSE 0 - t[i].amount], idx)

\* C15: in every state reached from a new pool with empty token accounts, the
\* pool's token account of each asset holds exactly the reserve of that
\* asset, and every successful operation changed each reserve by exactly what
\* its custody calls pulled into, or released from, that token account.
C15_ValueConserved ==
    /\ \A k \in {"one", "two"} : vault[k] = ReserveOf(pool, k)
    /\ (last.op # "none" /\ last.err = "Ok")
       => \A k \in {"one", "two"} :
             /\ ReserveOf(pool, k) - ReserveOf(Pre, k) = CustodyNet(k)
             /\ vault[k] - last.pre.vault[k] = CustodyNet(k)

\* A successful swap on a pool that had received asset one before: both the
\* reserve and the pool's token account grew by the amount pulled.
C15_Witness ==
    /\ last.op = "swap" /\ last.err = "Ok" /\ last.a > 0
    /\ Pre.reserve_one > 0
    /\ pool.reserve_one = Pre.reserve_one + last.a
    /\ vault.one = pool.reserve_one
    /\ CustodyNet("one") = last.a

\* The last call is an add_liquidity that computed a positive share amount
\* and went on to grant_shares.
AddReachesGrant == last.op = "add_liquidity" /\ last.mem.out_shares > 0

\* The addition of the granted shares to the provider's shares overflows.
ProviderAddOverflows ==
    AddReachesGrant /\ last.pre.provider[Caller] + last.mem.out_shares > U64_MAX

\* The last call reaches a u64 operation, other than the addition to the
\* provider's shares, whose exact result is out of range or undefined.
OtherArithmeticFault ==
    \/ /\ last.op = "add_liquidity"
       /\ Pre.total_supply > 0
       /\ \/ last.a * Pre.total_supply > U64_MAX
          \/ Pre.reserve_one = 0
          \/ last.b * Pre.total_supply > U64_MAX
          \/ Pre.reserve_two = 0
    \/ /\ AddReachesGrant
       /\ ~ProviderAddOverflows
       /\ \/ Pre.total_supply < last.mem.out_shares
          \/ Pre.reserve_one + last.a > U64_MAX
          \/ Pre.reserve_two + last.b > U64_MAX
    \/ /\ last.op = "remove_liquidity"
       /\ last.a > 0 /\ last.pre.provider[Caller] >= last.a
       /\ \/ last.a * Pre.reserve_one > U64_MAX
          \/ Pre.total_supply = 0
          \/ last.a * Pre.reserve_two > U64_MAX
          \/ /\ ~PayoutRoundsToZero(Pre, last.a)
             /\ \/ Pre.total_supply < last.a
                \/ Pre.reserve_one < (last.a * Pre.reserve_one) \div Pre.total_supply
                \/ Pre.reserve_two < (last.a * Pre.reserve_two) \div Pre.total_supply
    \/ /\ last.op = "swap"
       /\ last.a > 0
       /\ \/ ~CurveFits(Pre.reserve_one, last.a)
          \/ Pre.reserve_one + last.a > U64_MAX
          \/ Pre.reserve_two < CurveOut(Pre.reserve_one, last.a)

\* Every stored value a successful call changed is the exact integer result
\* of its formula, and every stored value is in range.
StoredExact ==
    /\ (last.op = "add_liquidity" /\ last.err = "Ok")
       => (/\ Pre.total_supply > 0
           /\ last.mem.out_shares = SteadyShares(Pre, last.a, last.b)
           /\ provider[Caller] = last.pre.provider[Caller] + last.mem.out_shares
           /\ pool.total_supply = Pre.total_supply - last.mem.out_shares
           /\ pool.reserve_one = Pre.reserve_one + last.a
           /\ pool.reserve_two = Pre.reserve_two + last.b)
    /\ (last.op = "remove_liquidity" /\ last.err = "Ok")
       => (/\ provider[Caller] = last.pre.provider[Caller] - last.a
           /\ pool.total_supply = Pre.total_supply - last.a
           /\ pool.reserve_one
                 = Pre.reserve_one - (last.a * Pre.reserve_one) \div Pre.total_supply
           /\ pool.reserve_two
                 = Pre.reserve_two - (last.a * Pre.reserve_two) \div Pre.total_supply)
    /\ (last.op = "swap" /\ last.err = "Ok")
       => (/\ pool.reserve_one = Pre.reserve_one + last.a
           /\ pool.reserve_two = Pre.reserve_two - CurveOut(Pre.reserve_one, last.a))
    /\ InRange(pool.reserve_one) /\ InRange(pool.reserve_two) /\ InRange(pool.total_supply)
    /\ \A u \in Users : InRange(provider[u])

\* C16 (the claim as stated): a call that reaches an addition, subtraction,
\* multiplication or division on u64 values that overflows, underflows or
\* divides by zero, the addition to the provider's shares included, fails
\* with OverflowOrUnderflowOccurred; no stored value is a wrapped, saturated
\* or truncated result.
C16_AsStated ==
    /\ (OtherArithmeticFault \/ ProviderAddOverflows)
       => last.err = "OverflowOrUnderflowOccurred"
    /\ StoredExact

\* C16 (amended): the same for every operation but the addition to the
\* provider's shares, whose overflow fails with FailedToAllocateShares.
C16_CheckedArithmetic ==
    /\ OtherArithmeticFault => last.err = "OverflowOrUnderflowOccurred"
    /\ ProviderAddOverflows => last.err = "FailedToAllocateShares"
    /\ (last.op # "none" /\ last.err # "Ok") => Unchanged
    /\ StoredExact

\* A deposit whose reserve addition overflows, after grant_shares went through.
C16_Witness ==
    /\ AddReachesGrant
    /\ ~ProviderAddOverflows
    /\ Pre.total_supply >= last.mem.out_shares
    /\ Pre.reserve_one + last.a > U64_MAX
    /\ last.err = "OverflowOrUnderflowOccurred"
    /\ pool = Pre

\* The accounts the last call was handed, as they were before it.
PreLoad ==
    [pool |-> Pre, shares |-> last.pre.provider[Caller], vault |-> last.pre.vault,
     wallet |-> last.pre.wallet[Caller], trace |-> <<>>, err |-> "Ok",
     out_shares |-> 0, out_one |-> 0, out_two |-> 0]

\* C17: whatever fees the configuration holds, a swap of the same amount on
\* the same accounts returns the same result (Ok or the same error), computes
\* the same amount_out, writes the same reserves and moves the same token
\* amounts: the swap that ran under the stored configuration is the swap
\* under every other configuration, and what is stored is its result.
C17_FeeIndependent ==
    last.op = "swap"
    => (/\ \A fees \in Fees :
              swap(CurveConfiguration_new(fees), PreLoad, last.a) = last.mem
        /\ last.err = "Ok"
           => (/\ pool = last.mem.pool
               /\ vault = last.mem.vault
               /\ wallet[Caller] = last.mem.wallet))

\* A swap with a payout, run under a configuration with a fee.
C17_Witness ==
    /\ last.op = "swap" /\ last.err = "Ok"
    /\ dex_configuration_account.fees > 0
    /\ last.mem.out_two > 0
    /\ last.mem.out_two = CurveOut(Pre.reserve_one, last.a)
    /\ swap(CurveConfiguration_new(0), PreLoad, last.a) = last.mem

\* The two keys of a create_pool instruction, as a set.
PairOf(call) == {call.token_one, call.token_two}

\* The text forms of the keys of two instructions all have one length.
EqualLengthIds(c1, c2) ==
    \A k \in PairOf(c1) \cup PairOf(c2) : Len(to_string(k)) = Len(to_string(c1.token_one))

\* C18: the seed generate_seed derives for (A, B) is the seed it derives for
\* (B, A); two create_pool instructions for different unordered pairs of
\* distinct keys whose text forms all have the same length get different
\* seeds; the ledger a create_pool makes has reserve_one = reserve_two =
\* total_supply = 0.
C18_CanonicalCreation ==
    LET c == last.call
        d == last.pre IN
    /\ c.token_one # c.token_two
       => /\ c.seed = generate_seed(c.token_two, c.token_one)
          /\ c.err = "Ok"
          /\ PairOf(c) = {pool.token_one, pool.token_two}
          /\ pool.reserve_one = 0 /\ pool.reserve_two = 0 /\ pool.total_supply = 0
    /\ (/\ c.token_one # c.token_two /\ d.token_one # d.token_two
        /\ PairOf(c) = PairOf(d))
       => c.seed = d.seed
    /\ (/\ c.token_one # c.token_two /\ d.token_one # d.token_two
        /\ PairOf(c) # PairOf(d)
        /\ EqualLengthIds(c, d))
       => c.seed # d.seed

\* create_pool(B, A) after create_pool(A, B), A # B: one seed for both.
C18_Witness ==
    /\ last.call.op = "create_pool"
    /\ last.call.token_one # last.call.token_two
    /\ last.call.token_one = last.pre.token_two
    /\ last.call.token_two = last.pre.token_one
    /\ last.call.seed = last.pre.seed
    /\ pool.token_one = last.call.token_one
    /\ pool.total_supply = 0

\* Two create_pool instructions for different pairs of distinct keys got one seed.
C18_SeedCollision ==
    /\ last.call.token_one # last.call.token_two
    /\ last.pre.token_one # last.pre.token_two
    /\ PairOf(last.call) # PairOf(last.pre)
    /\ last.call.seed = last.pre.seed

\* The last call is a remove_liquidity that computed two positive payouts and
\* went on to remove_shares.
RemoveReachesShares ==
    last.op = "remove_liquidity" /\ last.mem.out_one > 0 /\ last.mem.out_two > 0

\* C19: grant_shares(position, n), as add_liquidity calls it, adds n to the
\* position's shares and subtracts n from pool.total_supply, and fails when
\* total_supply < n; remove_shares(position, n), as remove_liquidity calls
\* it, subtracts n from both. Both are seen on the accounts in memory when the
\* operation returns, and on the stored accounts when it succeeds.
C19_ShareSupplyCoupling ==
    LET n == last.mem.out_shares IN
    /\ (AddReachesGrant /\ ~ProviderAddOverflows /\ Pre.total_supply >= n)
       => (/\ last.mem.shares = last.pre.provider[Caller] + n
           /\ last.mem.pool.total_supply = Pre.total_supply - n
           /\ SubSeq(last.mem.trace, 1, 2)
                 = <<Ev("write", "shares", last.pre.provider[Caller] + n),
                     Ev("write", "total_supply", Pre.total_supply - n)>>)
    /\ (AddReachesGrant /\ ~ProviderAddOverflows /\ Pre.total_supply < n)
       => (/\ last.err = "OverflowOrUnderflowOccurred"
           /\ last.mem.pool.total_supply = Pre.total_supply
           /\ Unchanged)
    /\ (last.op = "add_liquidity" /\ last.err = "Ok")
       => (/\ n > 0
           /\ provider[Caller] = last.pre.provider[Caller] + n
           /\ pool.total_supply = Pre.total_supply - n)
    /\ (RemoveReachesShares /\ Pre.total_supply >= last.a)
       => (/\ last.mem.shares = last.pre.provider[Caller] - last.a
           /\ last.mem.pool.total_supply = Pre.total_supply - last.a)
    /\ (last.op = "remove_liquidity" /\ last.err = "Ok")
       => (/\ provider[Caller] = last.pre.provider[Caller] - last.a
           /\ pool.total_supply = Pre.total_supply - last.a)

\* A successful deposit: the provider's shares went up and total_supply down,
\* by the shares granted.
C19_Witness ==
    /\ last.op = "add_liquidity" /\ last.err = "Ok"
    /\ last.mem.out_shares > 0
    /\ provider[Caller] = last.pre.provider[Caller] + last.mem.out_shares
    /\ pool.total_supply = Pre.total_supply - last.mem.out_shares
    /\ pool.total_supply < Pre.total_supply

\* The custody calls, done or failed, of the last operation.
CustodyCalls == SelectSeq(last.mem.trace, LAMBDA e : e.ev # "write")

\* The account fields an operation writes before its first custody call.
WritesOf(op) ==
    IF op = "swap" THEN <<"reserves">> ELSE <<"shares", "total_supply", "reserves">>

\* C20: in every add_liquidity, remove_liquidity and swap, a custody call is
\* made only after every check and computation has passed and the new shares,
\* total_supply and reserves are written to the accounts; nothing is written
\* after the first custody call; a call that fails a check or an arithmetic
\* operation makes no custody call.
C20_CustodyOrdering ==
    last.op # "none"
    => LET t == last.mem.trace
           w == WritesOf(last.op) IN
       /\ \A i \in 1..Len(t), j \in 1..Len(t) :
             (t[i].ev # "write" /\ j > i) => t[j].ev # "write"
       /\ CustodyCalls # <<>>
          => (/\ Len(t) > Len(w)
              /\ \A i \in 1..Len(w) : t[i].ev = "write" /\ t[i].what = w[i]
              /\ last.mem.pool.reserve_one
                    = (IF last.op = "add_liquidity" THEN Pre.reserve_one + last.a
                       ELSE IF last.op = "swap" THEN Pre.reserve_one + last.a
                       ELSE Pre.reserve_one - last.mem.out_one)
              /\ last.mem.pool.reserve_two
                    = (IF last.op = "add_liquidity" THEN Pre.reserve_two + last.b
                       ELSE Pre.reserve_two - last.mem.out_two)
              /\ last.err \in {"Ok", "TokenTransferFailed"})
       /\ last.err \notin {"Ok", "TokenTransferFailed"} => CustodyCalls = <<>>
       /\ last.err = "Ok" => Len(CustodyCalls) = 2

\* A successful deposit: three writes, then the two pulls.
C20_Witness ==
    /\ last.op = "add_liquidity" /\ last.err = "Ok"
    /\ Len(last.mem.trace) = 5
    /\ last.mem.trace[3] = Ev("write", "reserves", 0)
    /\ last.mem.trace[4] = Ev("pull", "one", last.a)
    /\ last.mem.trace[5] = Ev("pull", "two", last.b)
    /\ last.a > 0 /\ last.b > 0

\* A custody call of the last operation failed.
CustodyFailed ==
    \E i \in 1..Len(last.mem.trace) :
       last.mem.trace[i].ev \in {"pull_failed", "release_failed"}

\* C21: when a token transfer fails during add_liquidity, remove_liquidity or
\* swap, the first of the two or the second after the first went through, the
\* instruction returns the error and the stored pool, the stored positions
\* and all token balances are those before the call: the reserves and shares
\* written in memory before the transfer are not stored.
C21_CustodyFailureRollsBack ==
    /\ (last.op # "none" /\ CustodyFailed)
       => (/\ last.err = "TokenTransferFailed"
           /\ last.mem.trace[Len(last.mem.trace)].ev \in {"pull_failed", "release_failed"}
           /\ Unchanged)
    /\ (last.op # "none" /\ last.err = "TokenTransferFailed")
       => (CustodyFailed /\ Unchanged)

\* A deposit whose second pull failed after the first went through: shares,
\* total_supply and reserves were written in memory and one token moved, and
\* none of it is stored.
C21_Witness ==
    /\ last.op = "add_liquidity"
    /\ last.err = "TokenTransferFailed"
    /\ Len(last.mem.trace) = 5
    /\ last.mem.trace[4] = Ev("pull", "one", last.a)
    /\ last.mem.trace[5] = Ev("pull_failed", "two", last.b)
    /\ last.a > 0
    /\ last.mem.pool.reserve_one = Pre.reserve_one + last.a
    /\ last.mem.pool.total_supply # Pre.total_supply
    /\ last.mem.vault.one = last.pre.vault.one + last.a
    /\ pool = Pre
    /\ provider = last.pre.provider
    /\ vault = last.pre.vault
    /\ wallet = last.pre.wallet

\* C22: in every state reached from a new pool by add_liquidity,
\* remove_liquidity and swap calls of providers starting at 0 shares,
\* total_supply = 0, every provider's shares = 0 and reserve_two = 0; no
\* add_liquidity and no remove_liquidity has succeeded, and a swap has
\* succeeded only with amount = 1, paying out 0.
C22_NewPoolStaysEmpty ==
    /\ pool.total_supply = 0
    /\ \A u \in Users : provider[u] = 0
    /\ pool.reserve_two = 0
    /\ last.op \in {"add_liquidity", "remove_liquidity"} => last.err # "Ok"
    /\ (last.op = "swap" /\ last.err = "Ok") => (last.a = 1 /\ last.mem.out_two = 0)
    /\ ~liquidity_added

\* A second swap(1) went through on a pool that took one unit of asset one
\* before, and the pool still has no shares and no asset two.
C22_Witness ==
    /\ last.op = "swap" /\ last.a = 1 /\ last.err = "Ok"
    /\ Pre.reserve_one >= 1
    /\ pool.reserve_one = Pre.reserve_one + 1
    /\ pool.total_supply = 0 /\ pool.reserve_two = 0
    /\ \A u \in Users : provider[u] = 0

\* C23: from any stored ledger, no add_liquidity, remove_liquidity or swap
\* instruction leaves pool.total_supply, stored or in memory, above its value
\* before the instruction, and a successful add_liquidity leaves it strictly
\* below.
C23_SupplyNeverIncreases ==
    [][/\ pool'.total_supply <= pool.total_supply
       /\ last'.mem.pool.total_supply <= pool.total_supply
       /\ (last'.op = "add_liquidity" /\ last'.err = "Ok")
          => pool'.total_supply < pool.total_supply]_vars

\* A successful deposit into a ledger with total_supply 200 that was granted
\* 200 shares: total_supply is 0 afterwards.
C23_Witness ==
    /\ last.op = "add_liquidity" /\ last.err = "Ok"
    /\ last.mem.out_shares = 200
    /\ Pre.total_supply = 200
    /\ pool.total_supply = 0
    /\ pool.reserve_one = Pre.reserve_one + last.a

\* Pool p has the token ids and the bump of pool q.
SameIdentity(p, q) ==
    p.token_one = q.token_one /\ p.token_two = q.token_two /\ p.bump = q.bump

\* The account fields the last operation wrote.
FieldsWritten ==
    {last.mem.trace[i].what : i \in {j \in 1..Len(last.mem.trace) :
                                        last.mem.trace[j].ev = "write"}}

\* C24: swap changes nothing but reserve_one and reserve_two, stored or in
\* memory: total_supply, every provider's shares, token_one, token_two and
\* bump stay, reserve_one does not decrease and reserve_two does not
\* increase; add_liquidity and remove_liquidity change only the reserves,
\* total_supply and the shares of the provider of the call, never those of
\* another provider nor token_one, token_two or bump.
C24_FrameConditions ==
    /\ last.op = "swap"
       => (/\ FieldsWritten \subseteq {"reserves"}
           /\ SameIdentity(pool, Pre) /\ SameIdentity(last.mem.pool, Pre)
           /\ pool.total_supply = Pre.total_supply
           /\ last.mem.pool.total_supply = Pre.total_supply
           /\ provider = last.pre.provider
           /\ last.mem.shares = last.pre.provider[Caller]
           /\ pool.reserve_one >= Pre.reserve_one
           /\ last.mem.pool.reserve_one >= Pre.reserve_one
           /\ pool.reserve_two <= Pre.reserve_two
           /\ last.mem.pool.reserve_two <= Pre.reserve_two)
    /\ last.op \in {"add_liquidity", "remove_liquidity"}
       => (/\ FieldsWritten \subseteq {"shares", "total_supply", "reserves"}
           /\ SameIdentity(pool, Pre) /\ SameIdentity(last.mem.pool, Pre)
           /\ \A u \in Users \ {Caller} : provider[u] = last.pre.provider[u])

\* A swap with a payout on a ledger with shares outstanding, held by a
\* provider other than the caller.
C24_Witness ==
    /\ last.op = "swap" /\ last.err = "Ok"
    /\ last.mem.out_two > 0
    /\ pool.reserve_one > Pre.reserve_one
    /\ pool.reserve_two < Pre.reserve_two
    /\ Pre.total_supply > 0
    /\ pool.total_supply = Pre.total_supply
    /\ \E u \in Users \ {Caller} : provider[u] > 0 /\ provider[u] = last.pre.provider[u]

====
